---- MODULE Spec2Model ----
(***************************************************************************)
(* Model of the stack machine of src/vm.js (second, extended listing,      *)
(* lines 587-781): the instruction-set table, the processor state kept in  *)
(* the closures of goodCPU, the "ALU" helpers, the eighteen instruction    *)
(* handlers, the decoder, step() and run(), the assembler (mnemonic and    *)
(* assemble), and the object makeCPU returns for an empty program.         *)
(*                                                                         *)
(* JavaScript values are modelled as records [t, n, d]:                    *)
(*   t = "num"       the number n/d in lowest terms, d > 0                 *)
(*   t = "undefined" the value undefined (n = 0, d = 1)                    *)
(*   t = "NaN"       the number NaN      (n = 0, d = 1)                    *)
(* so that a read past the end of an array, an unmapped table entry and    *)
(* true (non truncating) division are modelled by what they do.            *)
(* Numbers are exact rationals; -0 is identified with 0 (the engine cannot *)
(* tell them apart: DIV refuses a zero divisor and comparisons use ==).    *)
(***************************************************************************)
EXTENDS Integers, Sequences, FiniteSets, TLC

VARIABLES
  program,             \* the word array handed to makeCPU (never written)
  isHalted,            \* goodCPU: let isHalted
  instructionAddress,  \* goodCPU: let instructionAddress
  fault,               \* goodCPU: let fault
  stack,               \* makeStack: memory, index 0 (Head) is the top
  frame,               \* makeFrame: memory, a keyed object
  pc,                  \* "idle": no call in progress; "running": inside run();
                       \* "assemble": inside assemble()
  hostErrors,          \* number of TypeErrors that escaped a call
  noops,               \* number of step()/run() calls made on a halted engine
  asmLines,            \* assemble: the lines handed to assemble()
  asmDone              \* assemble: the number of lines reduce() has consumed

vars == <<program, isHalted, instructionAddress, fault, stack, frame,
          pc, hostErrors, noops, asmLines, asmDone>>

(***************************************************************************)
(* Bounds of the model.                                                    *)
(***************************************************************************)
MaxVal == 2        \* PUSH literals of the generated prologue: -MaxVal..MaxVal
MaxPad == 1        \* filler cells pushed below the operands
MaxImm == 2        \* second words of the tail: -1..MaxImm
MaxDepth == 4      \* no instruction is started on a deeper stack
MaxNum == 70       \* nor on a stack holding a number beyond +-MaxNum
MaxErrors == 2     \* the caller gives up after this many host errors
MaxNoops == 2      \* calls made on a halted engine
MaxLines == 2      \* lines handed to assemble()

\* the largest number of cells an instruction pops (binaryOp)
MaxArity == 2

(***************************************************************************)
(* JavaScript values.                                                      *)
(***************************************************************************)
Abs(i) == IF i < 0 THEN -i ELSE i

RECURSIVE GCD(_, _)
GCD(a, b) == IF b = 0 THEN a ELSE GCD(b, a % b)

Undefined == [t |-> "undefined", n |-> 0, d |-> 1]
NaN == [t |-> "NaN", n |-> 0, d |-> 1]
Num(i) == [t |-> "num", n |-> i, d |-> 1]

\* the number n/d (d # 0) in lowest terms with a positive denominator
Rat(n, d) ==
  LET g == GCD(Abs(n), Abs(d))
      s == IF d < 0 THEN -1 ELSE 1
  IN  [t |-> "num", n |-> (s * n) \div g, d |-> Abs(d) \div g]

IsInteger(v) == v.t = "num" /\ v.d = 1

\* JavaScript ToBoolean on undefined, NaN and numbers
Truthy(v) == v.t = "num" /\ v.n # 0

\* JavaScript x != 0 (loose): undefined != 0 and NaN != 0 are both true
LooseNotZero(v) == ~(v.t = "num" /\ v.n = 0)

\* x++ on a variable: undefined and NaN become NaN
Increment(v) == IF v.t = "num" THEN Rat(v.n + v.d, v.d) ELSE NaN


(***************************************************************************)
(* The instruction-set table and the arithmetic of the handlers' lambdas.  *)
(***************************************************************************)
instructionSet ==
  [HALT |-> 0, PUSH |-> 1, POP |-> 2, DUP |-> 3, ADD |-> 4, SUB |-> 5,
   MUL |-> 6, DIV |-> 7, NOT |-> 8, AND |-> 9, OR |-> 10, EQ |-> 11,
   GT |-> 12, GTE |-> 13, JMP |-> 14, JIF |-> 15, LOAD |-> 16, STORE |-> 17]

\* the codes that have an entry in instructionDecoder
Opcodes == {instructionSet[m] : m \in DOMAIN instructionSet}

Bit(b) == IF b THEN Num(1) ELSE Num(0)

\* the operators below are applied to numbers only (binaryOp and unaryOp
\* validate their operands first)
opAdd(x, y) == Rat(x.n * y.d + y.n * x.d, x.d * y.d)
\* a subtraction with its operands exchanged
opSub_Swapped(x, y) == Rat(y.n * x.d - x.n * y.d, x.d * y.d)
opSub(x, y) == Rat(x.n * y.d - y.n * x.d, x.d * y.d)
opMul(x, y) == Rat(x.n * y.n, x.d * y.d)
opDiv(x, y) == Rat(x.n * y.d, x.d * y.n)
\* a division predicate that tests the dividend instead of the divisor
predDiv_Dividend(x, y) == LooseNotZero(x)
predDiv(x, y) == LooseNotZero(y)
opNot(x) == Bit(~Truthy(x))
opAnd(x, y) == Bit(Truthy(x) /\ Truthy(y))
opOr(x, y) == Bit(Truthy(x) \/ Truthy(y))
opEq(x, y) == Bit(x = y)
\* a comparison with its operands exchanged
opGt_Swapped(x, y) == Bit(y.n * x.d > x.n * y.d)
opGt(x, y) == Bit(x.n * y.d > y.n * x.d)
\* a >= that is strict: the loop of a countdown stops one round early
opGte_Strict(x, y) == Bit(x.n * y.d > y.n * x.d)
opGte(x, y) == Bit(x.n * y.d >= y.n * x.d)
predTrue2(x, y) == TRUE
predTrue1(x) == TRUE

\* the lambdas handed to binaryOp and unaryOp, named by the instruction
\* that hands them over
applyOp2(op, x, y) ==
  CASE op = "ADD" -> opAdd(x, y)
    [] op = "SUB" -> opSub(x, y)
    [] op = "MUL" -> opMul(x, y)
    [] op = "DIV" -> opDiv(x, y)
    [] op = "AND" -> opAnd(x, y)
    [] op = "OR" -> opOr(x, y)
    [] op = "EQ" -> opEq(x, y)
    [] op = "GT" -> opGt(x, y)
    [] op = "GTE" -> opGte(x, y)
applyPred2(op, x, y) == IF op = "DIV" THEN predDiv(x, y) ELSE predTrue2(x, y)
applyOp1(op, x) == CASE op = "NOT" -> opNot(x)
applyPred1(op, x) == predTrue1(x)

(***************************************************************************)
(* The processor state as one record, so that the helpers of goodCPU can   *)
(* be written as the functions they are.                                   *)
(***************************************************************************)
Cpu ==
  [isHalted |-> isHalted, instructionAddress |-> instructionAddress,
   fault |-> fault, stack |-> stack, frame |-> frame]

\* program[a]: undefined outside 0 .. length-1 and for a non-index a
ProgramWord(a) ==
  IF IsInteger(a) /\ 0 <= a.n /\ a.n < Len(program)
  THEN program[a.n + 1]
  ELSE Undefined

\* makeStack
stackPointer(m) == Len(m.stack)
stackPeek(m) == IF m.stack = <<>> THEN Undefined ELSE Head(m.stack)
\* a stack whose push appends to the array it shifts from: first in, first out
stackPush_Append(m, x) == [m EXCEPT !.stack = @ \o <<x>>]
stackPush(m, x) == [m EXCEPT !.stack = <<x>> \o @]
stackPop(m) == [m EXCEPT !.stack = IF @ = <<>> THEN @ ELSE Tail(@)]

\* makeFrame
\* a frame get that hands memory[k] out as it is, without the default 0
frameGet_NoDefault(m, k) ==
  IF k \in DOMAIN m.frame THEN m.frame[k] ELSE Undefined
frameGet(m, k) ==
  IF k \in DOMAIN m.frame /\ m.frame[k] # Undefined THEN m.frame[k] ELSE Num(0)
\* a frame set that starts from an empty memory: the other slots are lost
frameSet_Fresh(m, k, v) == [m EXCEPT !.frame = [x \in {k} |-> v]]
frameSet(m, k, v) ==
  [m EXCEPT !.frame = [x \in (DOMAIN @) \cup {k} |-> IF x = k THEN v ELSE @[x]]]

\* a raiseFault that records the fault and leaves the engine running
raiseFault_NoHalt(m, x) == [m EXCEPT !.fault = x]
raiseFault(m, x) == [m EXCEPT !.fault = x, !.isHalted = TRUE]

\* getNextProgramWord: the word read, and the state after the read
nextWord(m) == ProgramWord(m.instructionAddress)
afterFetch(m) == [m EXCEPT !.instructionAddress = Increment(@)]

\* a validateOperands that is content with one operand
validateOperands_Either(x, y) == x # Undefined \/ y # Undefined
validateOperands(x, y) == x # Undefined /\ y # Undefined
validateOperand(x) == x # Undefined

\* a binaryOp that validates the operands before it removes them
binaryOp_ValidateFirst(m, op) ==
  LET operand1 == stackPeek(m)
      m1 == stackPop(m)
      operand0 == stackPeek(m1)
      m2 == stackPop(m1)
  IN  IF validateOperands(operand0, operand1) /\ applyPred2(op, operand0, operand1)
      THEN stackPush(m2, applyOp2(op, operand0, operand1))
      ELSE raiseFault(m, "BIN_OP")

\* a binaryOp whose fault path pushes the operands it popped back
binaryOp_Restore(m, op) ==
  LET operand1 == stackPeek(m)
      m1 == stackPop(m)
      operand0 == stackPeek(m1)
      m2 == stackPop(m1)
      m3 == IF stackPointer(m1) > 0 THEN stackPush(m2, operand0) ELSE m2
      m4 == IF stackPointer(m) > 0 THEN stackPush(m3, operand1) ELSE m3
  IN  IF validateOperands(operand0, operand1) /\ applyPred2(op, operand0, operand1)
      THEN stackPush(m2, applyOp2(op, operand0, operand1))
      ELSE raiseFault(m4, "BIN_OP")

binaryOp(m, op) ==
  LET operand1 == stackPeek(m)
      m1 == stackPop(m)
      operand0 == stackPeek(m1)
      m2 == stackPop(m1)
  IN  IF validateOperands(operand0, operand1) /\ applyPred2(op, operand0, operand1)
      THEN stackPush(m2, applyOp2(op, operand0, operand1))
      ELSE raiseFault(m2, "BIN_OP")

\* a unaryOp that reads the top cell and leaves it under the result
unaryOp_Peek(m, op) ==
  LET operand == stackPeek(m)
  IN  IF validateOperand(operand) /\ applyPred1(op, operand)
      THEN stackPush(m, applyOp1(op, operand))
      ELSE raiseFault(stackPop(m), "UNI_OP")
unaryOp(m, op) ==
  LET operand0 == stackPeek(m)
      m1 == stackPop(m)
  IN  IF validateOperand(operand0) /\ applyPred1(op, operand0)
      THEN stackPush(m1, applyOp1(op, operand0))
      ELSE raiseFault(m1, "UNI_OP")

\* stackOp(op, minStackSize): done is the state op leaves
\* a stackOp that stops the engine on a short stack without recording a fault
stackOp_SilentHalt(m, done, minStackSize) ==
  IF minStackSize <= stackPointer(m) THEN done
  ELSE [m EXCEPT !.isHalted = TRUE]
stackOp(m, done, minStackSize) ==
  IF minStackSize <= stackPointer(m) THEN done ELSE raiseFault(m, "STACK_OP")

(***************************************************************************)
(* The instruction handlers, applied to the state m that step() leaves     *)
(* after it fetched the opcode word.                                       *)
(***************************************************************************)
\* a HALT that also empties the operand stack
instructionHaltCpu_Clear(m) == [m EXCEPT !.isHalted = TRUE, !.stack = <<>>]
instructionHaltCpu(m) == [m EXCEPT !.isHalted = TRUE]

instructionPush(m) == stackOp(afterFetch(m), stackPush(afterFetch(m), nextWord(m)), 0)
instructionPop(m) == stackOp(m, stackPop(m), 1)
\* an instructionDup that copies the other end of the array, the bottom cell
instructionDup_Bottom(m) ==
  stackOp(m,
          stackPush(m, IF m.stack = <<>> THEN Undefined
                       ELSE m.stack[Len(m.stack)]),
          1)
instructionDup(m) == stackOp(m, stackPush(m, stackPeek(m)), 1)

\* an instructionLoad that reads its immediate without moving past it
\* an instructionLoad that writes the default it read into the unset slot
instructionLoad_Default(m) ==
  stackPush(afterFetch(frameSet(m, nextWord(m), frameGet(m, nextWord(m)))),
            frameGet(m, nextWord(m)))
instructionLoad_Peek(m) == stackPush(m, frameGet(m, nextWord(m)))
instructionLoad(m) == stackPush(afterFetch(m), frameGet(m, nextWord(m)))
\* an instructionStore that forgets the minimum stack size
instructionStore_NoMinimum(m) ==
  stackOp(m, frameSet(stackPop(afterFetch(m)), nextWord(m), stackPeek(m)), 0)

\* an instructionStore that reads its immediate before stackOp's test, the
\* way instructionPush does
instructionStore_EagerFetch(m) ==
  stackOp(afterFetch(m), frameSet(stackPop(afterFetch(m)), nextWord(m), stackPeek(m)), 1)

instructionStore(m) ==
  stackOp(m, frameSet(stackPop(afterFetch(m)), nextWord(m), stackPeek(m)), 1)

instructionAdd(m) == binaryOp(m, "ADD")
instructionSub(m) == binaryOp(m, "SUB")
instructionMul(m) == binaryOp(m, "MUL")
instructionDiv(m) == binaryOp(m, "DIV")

instructionNot(m) == unaryOp(m, "NOT")
instructionAnd(m) == binaryOp(m, "AND")
instructionOr(m) == binaryOp(m, "OR")

instructionEq(m) == binaryOp(m, "EQ")
instructionGt(m) == binaryOp(m, "GT")
instructionGte(m) == binaryOp(m, "GTE")

\* an instructionJmp whose immediate is relative to the address after it
instructionJmp_Relative(m) ==
  [m EXCEPT !.instructionAddress =
              Num(afterFetch(m).instructionAddress.n + nextWord(m).n)]
instructionJmp(m) == [m EXCEPT !.instructionAddress = nextWord(m)]
\* an instructionJif that leaves the immediate unread when it does not jump
\* an instructionJif that jumps when the popped cell is zero
instructionJif_Inverted(m) ==
  stackOp(m,
          IF LooseNotZero(stackPeek(m))
          THEN afterFetch(stackPop(m))
          ELSE [stackPop(m) EXCEPT !.instructionAddress = nextWord(m)],
          1)
instructionJif_ImmediateUnread(m) ==
  stackOp(m,
          IF LooseNotZero(stackPeek(m))
          THEN [stackPop(m) EXCEPT !.instructionAddress = nextWord(m)]
          ELSE stackPop(m),
          1)
instructionJif(m) ==
  stackOp(m,
          IF LooseNotZero(stackPeek(m))
          THEN [stackPop(m) EXCEPT !.instructionAddress = nextWord(m)]
          ELSE afterFetch(stackPop(m)),
          1)

\* instructionDecoder[w] is a handler
HasHandler(w) == w \in {Num(c) : c \in Opcodes}

\* instructionDecoder[code], for a code of the table
instructionDecoder(code, m) ==
  CASE code = instructionSet.HALT -> instructionHaltCpu(m)
    [] code = instructionSet.PUSH -> instructionPush(m)
    [] code = instructionSet.POP -> instructionPop(m)
    [] code = instructionSet.DUP -> instructionDup(m)
    [] code = instructionSet.ADD -> instructionAdd(m)
    [] code = instructionSet.SUB -> instructionSub(m)
    [] code = instructionSet.MUL -> instructionMul(m)
    [] code = instructionSet.DIV -> instructionDiv(m)
    [] code = instructionSet.NOT -> instructionNot(m)
    [] code = instructionSet.AND -> instructionAnd(m)
    [] code = instructionSet.OR -> instructionOr(m)
    [] code = instructionSet.EQ -> instructionEq(m)
    [] code = instructionSet.GT -> instructionGt(m)
    [] code = instructionSet.GTE -> instructionGte(m)
    [] code = instructionSet.JMP -> instructionJmp(m)
    [] code = instructionSet.JIF -> instructionJif(m)
    [] code = instructionSet.LOAD -> instructionLoad(m)
    [] code = instructionSet.STORE -> instructionStore(m)

(***************************************************************************)
(* assemble(): a line of assembly is a sequence of characters.  mnemonic() *)
(* cuts it into its runs of non-blank characters; a line whose first token *)
(* is PUSH, JMP, JIF, LOAD or STORE yields the code and parseInt of the    *)
(* second token, every other line is looked up whole in the instruction    *)
(* set.  The lines considered hold at least one token, and their numbers   *)
(* are written in decimal digits with an optional sign.                    *)
(***************************************************************************)
Mnemonics ==
  [HALT |-> <<"H", "A", "L", "T">>, PUSH |-> <<"P", "U", "S", "H">>,
   POP |-> <<"P", "O", "P">>, DUP |-> <<"D", "U", "P">>,
   ADD |-> <<"A", "D", "D">>, SUB |-> <<"S", "U", "B">>,
   MUL |-> <<"M", "U", "L">>, DIV |-> <<"D", "I", "V">>,
   NOT |-> <<"N", "O", "T">>, AND |-> <<"A", "N", "D">>,
   OR |-> <<"O", "R">>, EQ |-> <<"E", "Q">>, GT |-> <<"G", "T">>,
   GTE |-> <<"G", "T", "E">>, JMP |-> <<"J", "M", "P">>,
   JIF |-> <<"J", "I", "F">>, LOAD |-> <<"L", "O", "A", "D">>,
   STORE |-> <<"S", "T", "O", "R", "E">>]

\* instructionSet[x] for a string x: undefined when x is not a key
instructionSetAt(x) ==
  IF \E k \in DOMAIN instructionSet : Mnemonics[k] = x
  THEN Num(instructionSet[CHOOSE k \in DOMAIN instructionSet : Mnemonics[k] = x])
  ELSE Undefined

DigitChars == <<"0", "1", "2", "3", "4", "5", "6", "7", "8", "9">>
IsDigit(c) == \E i \in DOMAIN DigitChars : DigitChars[i] = c
DigitValue(c) == (CHOOSE i \in DOMAIN DigitChars : DigitChars[i] = c) - 1
IsSpace(c) == c \in {" ", "\t"}

\* the length of the longest prefix of s whose characters are all in / all
\* out of the blank characters (blank = TRUE / FALSE)
RECURSIVE RunLength(_, _)
RunLength(s, blank) ==
  IF s = <<>> \/ IsSpace(Head(s)) # blank THEN 0
  ELSE 1 + RunLength(Tail(s), blank)

\* x.match(/\S+/g)
RECURSIVE tokens(_)
tokens(x) ==
  LET rest == SubSeq(x, RunLength(x, TRUE) + 1, Len(x))
      n == RunLength(rest, FALSE)
  IN IF n = 0 THEN <<>>
     ELSE <<SubSeq(rest, 1, n)>> \o tokens(SubSeq(rest, n + 1, Len(rest)))

RECURSIVE DigitsLength(_)
DigitsLength(s) ==
  IF s = <<>> \/ ~IsDigit(Head(s)) THEN 0 ELSE 1 + DigitsLength(Tail(s))

RECURSIVE DigitsValue(_)
DigitsValue(s) ==
  IF s = <<>> THEN 0
  ELSE 10 * DigitsValue(SubSeq(s, 1, Len(s) - 1)) + DigitValue(s[Len(s)])

\* parseInt(s): an optional sign, then the longest run of digits; NaN when
\* there is no digit
\* a parseInt that does not know the sign: a signed token has no digits first
parseInt_Unsigned(s) ==
  LET n == DigitsLength(s)
  IN IF n = 0 THEN NaN ELSE Num(DigitsValue(SubSeq(s, 1, n)))
parseInt(s) ==
  LET signed == s # <<>> /\ Head(s) \in {"-", "+"}
      body == IF signed THEN Tail(s) ELSE s
      n == DigitsLength(body)
      magnitude == DigitsValue(SubSeq(body, 1, n))
  IN IF n = 0 THEN NaN
     ELSE IF signed /\ Head(s) = "-" THEN Num(0 - magnitude)
     ELSE Num(magnitude)

\* parseInt(tokens[1]); tokens[1] is undefined on a one-token line
Argument(t) == IF Len(t) < 2 THEN NaN ELSE parseInt(t[2])

WithArgument == {"PUSH", "JMP", "JIF", "LOAD", "STORE"}

\* mnemonic() that drops the argument of PUSH, JMP, JIF, LOAD and STORE
mnemonic_NoArgument(x) ==
  LET t == tokens(x)
  IN IF t # <<>> /\ (\E k \in WithArgument : Mnemonics[k] = t[1])
     THEN <<instructionSetAt(t[1])>>
     ELSE <<instructionSetAt(x)>>

mnemonic(x) ==
  LET t == tokens(x)
  IN IF t # <<>> /\ (\E k \in WithArgument : Mnemonics[k] = t[1])
     THEN <<instructionSetAt(t[1]), Argument(t)>>
     ELSE <<instructionSetAt(x)>>

RECURSIVE assemble(_)
assemble(asm) ==
  IF asm = <<>> THEN <<>> ELSE mnemonic(Head(asm)) \o assemble(Tail(asm))

\* how the tests write their lines: the mnemonic alone, or the mnemonic, a
\* blank and the number in decimal
RECURSIVE Digits(_)
Digits(n) ==
  IF n < 10 THEN <<DigitChars[n + 1]>>
  ELSE Digits(n \div 10) \o <<DigitChars[(n % 10) + 1]>>

Decimal(n) == IF n < 0 THEN <<"-">> \o Digits(0 - n) ELSE Digits(n)
Line(name) == Mnemonics[name]
LineWith(name, n) == Mnemonics[name] \o <<" ">> \o Decimal(n)

(***************************************************************************)
(* The programs the engine is constructed with.  A program is a prologue   *)
(* followed by a tail.  The prologue sets up the stack (filler cells, then *)
(* up to two operands) or the frame (PUSH filler, STORE k, then at most   *)
(* one operand).  The tail is one arbitrary word (a code of the table, the     *)
(* first unmapped code, a negative word, or undefined, the word assemble() *)
(* yields for an unknown mnemonic), optionally followed by one more word   *)
(* (an immediate, or the next opcode), optionally followed by HALT.        *)
(***************************************************************************)
SeqsUpTo(S, n) == UNION {[1 .. k -> S] : k \in 0 .. n}

RECURSIVE PushLines(_)
PushLines(vs) ==
  IF vs = <<>> THEN <<>>
  ELSE <<Num(instructionSet.PUSH), Head(vs)>> \o PushLines(Tail(vs))

Vals == {Num(i) : i \in (-MaxVal) .. MaxVal}
Filler == Num(MaxVal + 1)
Follow == {Num(i) : i \in (-1) .. MaxImm}
Words == {Num(i) : i \in (-1) .. (Cardinality(Opcodes))} \cup {Undefined}

StackPrologues ==
  {PushLines(ps) \o PushLines(vs) :
     ps \in SeqsUpTo({Filler}, MaxPad), vs \in SeqsUpTo(Vals, MaxArity)}

FramePrologues ==
  {PushLines(<<Filler>>) \o <<Num(instructionSet.STORE), k>> \o PushLines(vs) :
     k \in Follow, vs \in SeqsUpTo(Vals, 1)}

Tails ==
  {<<w>> \o f \o h :
     w \in Words, f \in SeqsUpTo(Follow, 1),
     h \in {<<>>, <<Num(instructionSet.HALT)>>}}

Programs == {p \o t : p \in StackPrologues \cup FramePrologues, t \in Tails}

(***************************************************************************)
(* The programs of the test suite that are run as written: their lines are *)
(* assembled.  The if/else and the while programs are taken for every pair *)
(* of initial values of the range and for the pair of the tests.           *)
(***************************************************************************)
PushPushHaltLines ==
  <<LineWith("PUSH", 42), LineWith("PUSH", 68), Line("HALT")>>

UnconditionalJumpLines ==
  <<LineWith("JMP", 3), Line("HALT"), LineWith("JMP", 2)>>

IfElseLines(a, b) ==
  <<LineWith("PUSH", a), LineWith("STORE", 0),
    LineWith("PUSH", b), LineWith("STORE", 1),
    LineWith("LOAD", 0), LineWith("LOAD", 1), Line("GT"),
    LineWith("JIF", 21),
    LineWith("LOAD", 1), LineWith("STORE", 2), LineWith("JMP", 25),
    LineWith("LOAD", 0), LineWith("STORE", 2),
    Line("HALT")>>

WhileAccumulateLines(a, b) ==
  <<LineWith("JMP", 3), Line("HALT"),
    LineWith("PUSH", a), LineWith("STORE", 0),
    LineWith("PUSH", b), LineWith("STORE", 1),
    LineWith("PUSH", 0), LineWith("STORE", 2),
    LineWith("LOAD", 1), LineWith("PUSH", 1), Line("GTE"), Line("NOT"),
    LineWith("JIF", 2),
    LineWith("LOAD", 0), LineWith("LOAD", 2), Line("ADD"),
    LineWith("STORE", 2),
    LineWith("LOAD", 1), LineWith("PUSH", 1), Line("SUB"),
    LineWith("STORE", 1),
    LineWith("JMP", 15)>>

TestPair == <<6, 4>>
IfElsePairs == (((-MaxVal) .. MaxVal) \X ((-MaxVal) .. MaxVal)) \cup {TestPair}
WhilePairs == (((-MaxVal) .. MaxVal) \X (0 .. MaxVal)) \cup {TestPair}

PushPushHalt == assemble(PushPushHaltLines)
UnconditionalJump == assemble(UnconditionalJumpLines)
IfElse(a, b) == assemble(IfElseLines(a, b))
WhileAccumulate(a, b) == assemble(WhileAccumulateLines(a, b))

TestPrograms ==
  {PushPushHalt, UnconditionalJump}
    \cup {IfElse(q[1], q[2]) : q \in IfElsePairs}
    \cup {WhileAccumulate(q[1], q[2]) : q \in WhilePairs}

\* makeCPU: an empty program yields badCPU, any other one goodCPU()
validateProgram(p) == Len(p) > 0
EmptyProgram == <<>>

\* the operations of the object makeCPU returns
goodCPU ==
  {"run", "step", "getInstructionAddress", "isHalted", "getStack",
   "getStackPointer", "getProcessorFault", "getCurrentFrame"}
badCPU ==
  {"run", "step", "getInstructionAddress", "isHalted", "getStack",
   "getStackPointer"}
makeCPU(p) == IF validateProgram(p) THEN goodCPU ELSE badCPU
Accessors ==
  {"getInstructionAddress", "isHalted", "getStack", "getStackPointer",
   "getProcessorFault", "getCurrentFrame"}

NoFault == "undefined"

\* badCPU answers isHalted with true, getInstructionAddress with 0 and
\* getStack with []: the state of the engine of an empty program reads so
Init ==
  /\ program \in Programs \cup TestPrograms \cup {EmptyProgram}
  /\ isHalted = ~validateProgram(program)
  /\ instructionAddress = Num(0)
  /\ fault = NoFault
  /\ stack = <<>>
  /\ frame = <<>>
  /\ pc = "idle"
  /\ hostErrors = 0
  /\ noops = 0
  /\ asmLines = <<>>
  /\ asmDone = 0

(***************************************************************************)
(* step(): on a running engine, fetch a word and call its decoder entry.   *)
(* The same step is an iteration of run()'s loop when pc = "running".      *)
(***************************************************************************)
Commit(m) ==
  /\ isHalted' = m.isHalted
  /\ instructionAddress' = m.instructionAddress
  /\ fault' = m.fault
  /\ stack' = m.stack
  /\ frame' = m.frame

\* step() is started on a running engine and fetches the word w
Fetches(w) ==
  /\ ~isHalted
  /\ hostErrors < MaxErrors
  /\ Len(stack) <= MaxDepth
  /\ \A i \in 1 .. Len(stack) : Abs(stack[i].n) <= MaxNum /\ stack[i].d <= MaxNum
  /\ nextWord(Cpu) = w

InstructionHalt ==
  /\ Fetches(Num(instructionSet.HALT))
  /\ Commit(instructionDecoder(instructionSet.HALT, afterFetch(Cpu)))
  /\ UNCHANGED <<asmLines, asmDone, program, pc, hostErrors, noops>>

InstructionPush ==
  /\ Fetches(Num(instructionSet.PUSH))
  /\ Commit(instructionDecoder(instructionSet.PUSH, afterFetch(Cpu)))
  /\ UNCHANGED <<asmLines, asmDone, program, pc, hostErrors, noops>>

InstructionPop ==
  /\ Fetches(Num(instructionSet.POP))
  /\ Commit(instructionDecoder(instructionSet.POP, afterFetch(Cpu)))
  /\ UNCHANGED <<asmLines, asmDone, program, pc, hostErrors, noops>>

InstructionDup ==
  /\ Fetches(Num(instructionSet.DUP))
  /\ Commit(instructionDecoder(instructionSet.DUP, afterFetch(Cpu)))
  /\ UNCHANGED <<asmLines, asmDone, program, pc, hostErrors, noops>>

InstructionAdd ==
  /\ Fetches(Num(instructionSet.ADD))
  /\ Commit(instructionDecoder(instructionSet.ADD, afterFetch(Cpu)))
  /\ UNCHANGED <<asmLines, asmDone, program, pc, hostErrors, noops>>

InstructionSub ==
  /\ Fetches(Num(instructionSet.SUB))
  /\ Commit(instructionDecoder(instructionSet.SUB, afterFetch(Cpu)))
  /\ UNCHANGED <<asmLines, asmDone, program, pc, hostErrors, noops>>

InstructionMul ==
  /\ Fetches(Num(instructionSet.MUL))
  /\ Commit(instructionDecoder(instructionSet.MUL, afterFetch(Cpu)))
  /\ UNCHANGED <<asmLines, asmDone, program, pc, hostErrors, noops>>

InstructionDiv ==
  /\ Fetches(Num(instructionSet.DIV))
  /\ Commit(instructionDecoder(instructionSet.DIV, afterFetch(Cpu)))
  /\ UNCHANGED <<asmLines, asmDone, program, pc, hostErrors, noops>>

InstructionNot ==
  /\ Fetches(Num(instructionSet.NOT))
  /\ Commit(instructionDecoder(instructionSet.NOT, afterFetch(Cpu)))
  /\ UNCHANGED <<asmLines, asmDone, program, pc, hostErrors, noops>>

InstructionAnd ==
  /\ Fetches(Num(instructionSet.AND))
  /\ Commit(instructionDecoder(instructionSet.AND, afterFetch(Cpu)))
  /\ UNCHANGED <<asmLines, asmDone, program, pc, hostErrors, noops>>

InstructionOr ==
  /\ Fetches(Num(instructionSet.OR))
  /\ Commit(instructionDecoder(instructionSet.OR, afterFetch(Cpu)))
  /\ UNCHANGED <<asmLines, asmDone, program, pc, hostErrors, noops>>

InstructionEq ==
  /\ Fetches(Num(instructionSet.EQ))
  /\ Commit(instructionDecoder(instructionSet.EQ, afterFetch(Cpu)))
  /\ UNCHANGED <<asmLines, asmDone, program, pc, hostErrors, noops>>

InstructionGt ==
  /\ Fetches(Num(instructionSet.GT))
  /\ Commit(instructionDecoder(instructionSet.GT, afterFetch(Cpu)))
  /\ UNCHANGED <<asmLines, asmDone, program, pc, hostErrors, noops>>

InstructionGte ==
  /\ Fetches(Num(instructionSet.GTE))
  /\ Commit(instructionDecoder(instructionSet.GTE, afterFetch(Cpu)))
  /\ UNCHANGED <<asmLines, asmDone, program, pc, hostErrors, noops>>

InstructionJmp ==
  /\ Fetches(Num(instructionSet.JMP))
  /\ Commit(instructionDecoder(instructionSet.JMP, afterFetch(Cpu)))
  /\ UNCHANGED <<asmLines, asmDone, program, pc, hostErrors, noops>>

InstructionJif ==
  /\ Fetches(Num(instructionSet.JIF))
  /\ Commit(instructionDecoder(instructionSet.JIF, afterFetch(Cpu)))
  /\ UNCHANGED <<asmLines, asmDone, program, pc, hostErrors, noops>>

InstructionLoad ==
  /\ Fetches(Num(instructionSet.LOAD))
  /\ Commit(instructionDecoder(instructionSet.LOAD, afterFetch(Cpu)))
  /\ UNCHANGED <<asmLines, asmDone, program, pc, hostErrors, noops>>

InstructionStore ==
  /\ Fetches(Num(instructionSet.STORE))
  /\ Commit(instructionDecoder(instructionSet.STORE, afterFetch(Cpu)))
  /\ UNCHANGED <<asmLines, asmDone, program, pc, hostErrors, noops>>

\* the fetched word has no decoder entry: calling undefined throws a
\* TypeError out of step(), and out of run() when run() made the call
UndefinedInstruction ==
  /\ Fetches(nextWord(Cpu))
  /\ ~HasHandler(nextWord(Cpu))
  /\ instructionAddress' = Increment(instructionAddress)
  /\ hostErrors' = hostErrors + 1
  /\ pc' = "idle"
  /\ UNCHANGED <<asmLines, asmDone, program, isHalted, fault, stack, frame,
                 noops>>

\* a step() that lacks the !isHalted test: it fetches on a halted engine too
StepHalted_Unguarded ==
  /\ pc = "idle"
  /\ isHalted
  /\ noops < MaxNoops
  /\ noops' = noops + 1
  /\ instructionAddress' = Increment(instructionAddress)
  /\ UNCHANGED <<asmLines, asmDone, program, isHalted, fault, stack, frame,
                 pc, hostErrors>>

\* step() called on a halted engine
StepHalted ==
  /\ pc = "idle"
  /\ isHalted
  /\ noops < MaxNoops
  /\ noops' = noops + 1
  /\ UNCHANGED <<asmLines, asmDone, program, isHalted, instructionAddress,
                 fault, stack, frame, pc, hostErrors>>

(***************************************************************************)
(* run(): loop on step() until the engine is halted.                       *)
(***************************************************************************)
RunCall ==
  /\ pc = "idle"
  /\ hostErrors < MaxErrors
  /\ isHalted => noops < MaxNoops
  /\ pc' = "running"
  /\ noops' = IF isHalted THEN noops + 1 ELSE noops
  /\ UNCHANGED <<asmLines, asmDone, program, isHalted, instructionAddress,
                 fault, stack, frame, hostErrors>>

RunReturn ==
  /\ pc = "running"
  /\ isHalted
  /\ pc' = "idle"
  /\ UNCHANGED <<asmLines, asmDone, program, isHalted, instructionAddress,
                 fault, stack, frame, hostErrors, noops>>

\* the host calls an accessor of the object makeCPU returned: a read that
\* changes nothing, or a TypeError when the object has no such operation
CallAccessor ==
  /\ pc = "idle"
  /\ hostErrors < MaxErrors
  /\ \E name \in Accessors :
       hostErrors' = IF name \in makeCPU(program) THEN hostErrors
                     ELSE hostErrors + 1
  /\ UNCHANGED <<asmLines, asmDone, program, isHalted, instructionAddress,
                 fault, stack, frame, pc, noops>>

Next ==
  \/ InstructionHalt \/ InstructionPush \/ InstructionPop \/ InstructionDup
  \/ InstructionAdd \/ InstructionSub \/ InstructionMul \/ InstructionDiv
  \/ InstructionNot \/ InstructionAnd \/ InstructionOr
  \/ InstructionEq \/ InstructionGt \/ InstructionGte
  \/ InstructionJmp \/ InstructionJif
  \/ InstructionLoad \/ InstructionStore
  \/ UndefinedInstruction
  \/ StepHalted
  \/ RunCall
  \/ RunReturn
  \/ CallAccessor

Spec == Init /\ [][Next]_vars

(***************************************************************************)
(* Vocabulary of the properties.                                           *)
(***************************************************************************)
\* this step is a step() (called directly, or by run()'s loop) that starts
\* on a running engine and fetches the word w as its opcode
FetchStep(w) ==
  /\ ~isHalted
  /\ nextWord(Cpu) = w
  /\ ~(pc = "idle" /\ pc' = "running")

Executing(code) == FetchStep(Num(code))

StackOps ==
  {instructionSet.POP, instructionSet.DUP, instructionSet.JIF, instructionSet.STORE}
UnaryOps == {instructionSet.NOT}
BinaryOps ==
  {instructionSet.ADD, instructionSet.SUB, instructionSet.MUL, instructionSet.DIV,
   instructionSet.AND, instructionSet.OR, instructionSet.EQ, instructionSet.GT,
   instructionSet.GTE}

Drop(s, k) == SubSeq(s, k + 1, Len(s))
Min(a, b) == IF a < b THEN a ELSE b
Max(a, b) == IF a > b THEN a ELSE b

(***************************************************************************)
(* C1: once the engine is halted (by HALT or by a fault) every further     *)
(* step() or run() is a no-op: instruction pointer, stack (and so its      *)
(* depth), frame, fault tag and halted flag stay exactly as they were.     *)
(***************************************************************************)
C1_HaltedCallsAreNoOps ==
  [][isHalted =>
       /\ isHalted'
       /\ instructionAddress' = instructionAddress
       /\ stack' = stack
       /\ frame' = frame
       /\ fault' = fault]_vars

\* a faulted engine with cells left on its stack on which step()/run() were
\* called twice after the fault, and the last call has returned
C1_Witness ==
  /\ isHalted
  /\ fault # NoFault
  /\ stack # <<>>
  /\ noops >= 2
  /\ pc = "idle"

(***************************************************************************)
(* C2: when step() on a running engine fetches a word that has no handler  *)
(* (past the end of the program, or a word that is no code of the          *)
(* instruction set), the engine records a fault and becomes halted, and    *)
(* step()/run() return normally, with no host-level error.                 *)
(***************************************************************************)
C2_UnmappedFetchFaults ==
  [][(FetchStep(nextWord(Cpu)) /\ ~HasHandler(nextWord(Cpu))) =>
       /\ isHalted'
       /\ fault' # NoFault
       /\ hostErrors' = hostErrors]_vars

(***************************************************************************)
(* C3: on a running engine POP, DUP, JIF and STORE executed on an empty    *)
(* stack set the fault STACK_OP; NOT on an empty stack sets UNI_OP; ADD,   *)
(* SUB, MUL, DIV, AND, OR, EQ, GT and GTE on fewer than two cells set      *)
(* BIN_OP; in each case halted becomes true.                               *)
(***************************************************************************)
C3_DepthFaultKinds ==
  [][/\ \A code \in StackOps :
          Executing(code) /\ Len(stack) = 0 => fault' = "STACK_OP" /\ isHalted'
     /\ \A code \in UnaryOps :
          Executing(code) /\ Len(stack) = 0 => fault' = "UNI_OP" /\ isHalted'
     /\ \A code \in BinaryOps :
          Executing(code) /\ Len(stack) < 2 => fault' = "BIN_OP" /\ isHalted'
    ]_vars

\* PUSH 2, GTE: a binary instruction met a single cell
C3_Witness ==
  /\ program = <<Num(instructionSet.PUSH), Num(2), Num(instructionSet.GTE)>>
  /\ fault = "BIN_OP"
  /\ isHalted

(***************************************************************************)
(* C4: DIV executed with at least two cells and a top cell (the right      *)
(* operand) equal to 0 sets the fault BIN_OP and halted, whatever the left *)
(* operand is, and pushes no quotient; the instruction pointer stops just  *)
(* past the DIV word, so that what follows DIV is never executed.          *)
(***************************************************************************)
C4_DivByZeroFaults ==
  [][(Executing(instructionSet.DIV) /\ Len(stack) >= 2 /\ stack[1] = Num(0)) =>
       /\ fault' = "BIN_OP"
       /\ isHalted'
       /\ stack' = Drop(stack, 2)
       /\ instructionAddress' = Increment(instructionAddress)]_vars

\* PUSH 2, PUSH 0, DIV, HALT has stopped on the DIV at word 4
C4_Witness ==
  /\ program = PushLines(<<Num(2), Num(0)>>)
                 \o <<Num(instructionSet.DIV), Num(instructionSet.HALT)>>
  /\ fault = "BIN_OP"
  /\ isHalted
  /\ instructionAddress = Num(5)
  /\ stack = <<>>

(***************************************************************************)
(* C5 (as stated): whenever ADD, SUB, MUL, DIV, NOT, AND, OR, EQ, GT or    *)
(* GTE faults, the operand stack after the fault is identical to the stack *)
(* immediately before the instruction.                                     *)
(***************************************************************************)
AluFaults(code) == Executing(code) /\ fault' # NoFault

C5_StackUnchangedOnAluFault ==
  [][\A code \in BinaryOps \cup UnaryOps : AluFaults(code) => stack' = stack]_vars

(***************************************************************************)
(* C5 (amended): whenever one of these instructions faults, the stack      *)
(* after the fault is the stack before the instruction without the cells   *)
(* the instruction popped: the top two for a binary instruction (the only  *)
(* cell when the depth is 1), the top one for NOT; the cells below keep    *)
(* their values and order, and the stack is unchanged only when it was     *)
(* empty before the instruction.                                           *)
(***************************************************************************)
C5_PoppedCellsGoneOnAluFault ==
  [][/\ \A code \in BinaryOps :
          AluFaults(code) => stack' = Drop(stack, Min(2, Len(stack)))
     /\ \A code \in UnaryOps :
          AluFaults(code) => stack' = Drop(stack, Min(1, Len(stack)))
     /\ \A code \in BinaryOps \cup UnaryOps :
          AluFaults(code) => (stack' = stack <=> stack = <<>>)
    ]_vars

\* filler, PUSH 1, PUSH 0, DIV: the fault took both operands and left the
\* filler cell
C5_Witness ==
  /\ program = PushLines(<<Filler, Num(1), Num(0)>>) \o <<Num(instructionSet.DIV)>>
  /\ fault = "BIN_OP"
  /\ stack = <<Filler>>

(***************************************************************************)
(* C6: when a binary instruction faults the cells it popped are not pushed *)
(* back: from depth n the depth after the fault is max(n-2, 0), so DIV by  *)
(* zero on exactly two cells and any binary instruction on exactly one     *)
(* cell leave an empty stack.                                              *)
(***************************************************************************)
C6_BinaryFaultDepth ==
  [][\A code \in BinaryOps :
       AluFaults(code) => Len(stack') = Max(Len(stack) - 2, 0)]_vars

\* PUSH -1, OR: the binary instruction met one cell and left none
C6_Witness ==
  /\ program = PushLines(<<Num(-1)>>) \o <<Num(instructionSet.OR), Num(instructionSet.HALT)>>
  /\ fault = "BIN_OP"
  /\ stack = <<>>
  /\ instructionAddress = Num(3)

(***************************************************************************)
(* C7: a stack-op fault (POP, DUP, JIF or STORE at depth < 1) leaves the   *)
(* operand stack and the frame exactly as they were: nothing is popped or  *)
(* pushed and no frame slot is written; the fault tag, the halted flag and *)
(* the instruction pointer are what changes.                               *)
(***************************************************************************)
C7_StackOpFaultKeepsStackAndFrame ==
  [][\A code \in StackOps :
       (Executing(code) /\ Len(stack) < 1) =>
         /\ stack' = stack
         /\ frame' = frame
         /\ fault' = "STACK_OP"
         /\ isHalted'
         /\ instructionAddress' # instructionAddress]_vars

\* PUSH filler, STORE 0, STORE 1: the second STORE faulted on the empty
\* stack and slot 0 is the only slot of the frame
C7_Witness ==
  /\ program = PushLines(<<Filler>>)
                 \o <<Num(instructionSet.STORE), Num(0), Num(instructionSet.STORE), Num(1)>>
  /\ fault = "STACK_OP"
  /\ stack = <<>>
  /\ DOMAIN frame = {Num(0)}
  /\ frame[Num(0)] = Filler

(***************************************************************************)
(* C8: when the instruction whose opcode is at word address p faults, the  *)
(* instruction pointer afterwards is exactly p+1 (STORE k and JIF a that   *)
(* fault on an empty stack do not consume their immediate), and it stays   *)
(* there.                                                                  *)
(***************************************************************************)
C8_FaultLeavesIpPastOpcode ==
  [][/\ ((\E code \in Opcodes : Executing(code)) /\ fault' # NoFault) =>
          /\ IsInteger(instructionAddress)
          /\ instructionAddress' = Num(instructionAddress.n + 1)
     /\ fault # NoFault => instructionAddress' = instructionAddress
    ]_vars

\* STORE 0, HALT: STORE faulted at word 0, the IP is 1 and is still 1 after
\* a further call
C8_Witness ==
  /\ program = <<Num(instructionSet.STORE), Num(0), Num(instructionSet.HALT)>>
  /\ fault = "STACK_OP"
  /\ instructionAddress = Num(1)
  /\ noops >= 1

(***************************************************************************)
(* C9: for all integers a and b of the range, the program PUSH a, PUSH b,  *)
(* op, HALT run from a fresh engine ends without fault with exactly one    *)
(* cell: a+b for ADD, a-b for SUB, a*b for MUL and, when b is not 0 and    *)
(* divides a, a/b for DIV (first pushed = left, last pushed = right).      *)
(***************************************************************************)
ArithProgram(a, b, code) ==
  PushLines(<<Num(a), Num(b)>>) \o <<Num(code), Num(instructionSet.HALT)>>

\* the integer q with q * b = a, for b # 0 that divides a
Quotient(a, b) == CHOOSE q \in (-Abs(a)) .. Abs(a) : q * b = a

Divides(b, a) == b # 0 /\ \E q \in (-Abs(a)) .. Abs(a) : q * b = a

\* the result the claim names for a program ArithProgram(a, b, code)
ArithExpected(a, b, code) ==
  CASE code = instructionSet.ADD -> a + b
    [] code = instructionSet.SUB -> a - b
    [] code = instructionSet.MUL -> a * b
    [] code = instructionSet.DIV -> Quotient(a, b)

Expected2(code, a, b) ==
  CASE code = instructionSet.EQ -> a = b
    [] code = instructionSet.GT -> a > b
    [] code = instructionSet.GTE -> a >= b
    [] code = instructionSet.AND -> a # 0 /\ b # 0
    [] code = instructionSet.OR -> a # 0 \/ b # 0

C10_ComparisonAndBooleanResults ==
  [][/\ \A code \in {instructionSet.EQ, instructionSet.GT, instructionSet.GTE,
                     instructionSet.AND, instructionSet.OR} :
          (/\ Executing(code)
           /\ Len(stack) >= 2
           /\ IsInteger(stack[1])
           /\ IsInteger(stack[2])) =>
             /\ fault' = NoFault
             /\ stack' = <<Num(IF Expected2(code, stack[2].n, stack[1].n) THEN 1 ELSE 0)>>
                           \o Drop(stack, 2)
             /\ stack'[1] \in {Num(0), Num(1)}
     /\ (Executing(instructionSet.NOT) /\ Len(stack) >= 1 /\ IsInteger(stack[1])) =>
          /\ fault' = NoFault
          /\ stack' = <<Num(IF stack[1].n = 0 THEN 1 ELSE 0)>> \o Drop(stack, 1)
          /\ stack'[1] \in {Num(0), Num(1)}
    ]_vars

\* PUSH 1, PUSH 2, GT, HALT has run to its HALT: 1 > 2 is 0
C10_Witness ==
  /\ program = PushLines(<<Num(1), Num(2)>>)
                 \o <<Num(instructionSet.GT), Num(instructionSet.HALT)>>
  /\ isHalted
  /\ fault = NoFault
  /\ stack = <<Num(0)>>

(***************************************************************************)
(* C11: JMP a sets the instruction pointer to its immediate a and leaves   *)
(* the stack as it was.  JIF a on a stack of depth >= 1 removes exactly    *)
(* the top cell; the instruction pointer becomes a when that cell is not   *)
(* zero, and the address of the opcode plus 2 when it is zero.             *)
(***************************************************************************)
Immediate == ProgramWord(Increment(instructionAddress))

C11_JumpTargets ==
  [][/\ Executing(instructionSet.JMP) =>
          /\ instructionAddress' = Immediate
          /\ stack' = stack
     /\ (Executing(instructionSet.JIF) /\ Len(stack) >= 1) =>
          /\ stack' = Tail(stack)
          /\ stack[1] # Num(0) => instructionAddress' = Immediate
          /\ stack[1] = Num(0) =>
               instructionAddress' = Num(instructionAddress.n + 2)]_vars

\* the second half of testConditionalJump: PUSH 0, JIF 0, HALT does not jump
\* to word 0 but falls through to the HALT at word 4
C11_Witness ==
  /\ program = <<Num(instructionSet.PUSH), Num(0), Num(instructionSet.JIF),
                 Num(0), Num(instructionSet.HALT)>>
  /\ isHalted /\ fault = NoFault /\ instructionAddress = Num(5)
  /\ stack = <<>>

(***************************************************************************)
(* C12: LOAD k on a slot k that no STORE has written since construction    *)
(* pushes the number 0 and raises no fault, whatever the slot index k and  *)
(* whatever the stack holds.  The frame holds exactly the slots written.   *)
(***************************************************************************)
C12_LoadOfUnwrittenSlotPushesZero ==
  [][(Executing(instructionSet.LOAD) /\ Immediate \notin DOMAIN frame) =>
       /\ stack' = <<Num(0)>> \o stack
       /\ fault' = NoFault
       /\ ~isHalted'
       /\ frame' = frame]_vars

\* testLoadVariableNotInitialized with a written slot next to the read one:
\* PUSH filler, STORE 0, PUSH 2, LOAD 1, HALT
C12_Witness ==
  /\ program = <<Num(instructionSet.PUSH), Filler, Num(instructionSet.STORE),
                 Num(0), Num(instructionSet.PUSH), Num(2),
                 Num(instructionSet.LOAD), Num(1), Num(instructionSet.HALT)>>
  /\ isHalted /\ fault = NoFault
  /\ DOMAIN frame = {Num(0)}
  /\ stack = <<Num(0), Num(2)>>

(***************************************************************************)
(* C13: after a successful STORE k that popped the value v, every later    *)
(* LOAD k pushes exactly v as long as no other STORE k was executed in     *)
(* between, whatever else ran (STORE to other slots included), and the     *)
(* frame reports slot k = v.  Step by step: a successful STORE k leaves    *)
(* slot k = the popped cell, every step that is not a successful STORE k   *)
(* leaves slot k as it is, and LOAD k pushes what slot k holds.            *)
(***************************************************************************)
Storing(k) ==
  Executing(instructionSet.STORE) /\ Len(stack) >= 1 /\ Immediate = k

C13_StoreLoadRoundTrip ==
  [][/\ Storing(Immediate) =>
          Immediate \in DOMAIN frame' /\ frame'[Immediate] = stack[1]
     /\ \A k \in DOMAIN frame :
          ~Storing(k) => k \in DOMAIN frame' /\ frame'[k] = frame[k]
     /\ (Executing(instructionSet.LOAD) /\ Immediate \in DOMAIN frame) =>
          /\ stack' = <<frame[Immediate]>> \o stack
          /\ fault' = NoFault]_vars

\* the if/else program of the test, after its first LOAD 0: slot 0 was
\* written first, then slot 1, and the LOAD pushed the value of slot 0
C13_Witness ==
  /\ program = IfElse(6, 4)
  /\ instructionAddress = Num(10)
  /\ frame = [k \in {Num(0), Num(1)} |-> IF k = Num(0) THEN Num(6) ELSE Num(4)]
  /\ stack = <<Num(6)>>

(***************************************************************************)
(* C14: the operand stack is LIFO and is reported top-first.  On a fresh   *)
(* engine whose program is PUSH v1, ..., PUSH vn followed by HALT or by    *)
(* POP, HALT, the stack after the first i pushes reads <<vi, ..., v1>>     *)
(* (depth i), and the POP after the n pushes removes vn and nothing else.  *)
(***************************************************************************)
\* the number of PUSH lines the program p starts with
RECURSIVE PushCount(_)
PushCount(p) ==
  IF Len(p) >= 2 /\ p[1] = Num(instructionSet.PUSH)
  THEN 1 + PushCount(SubSeq(p, 3, Len(p)))
  ELSE 0

\* the first i pushed values of p, the last pushed first
Pushed(p, i) == [j \in 1 .. i |-> p[2 * (i - j + 1)]]

C14_StackIsLifoTopFirst ==
  LET n == PushCount(program)
      rest == SubSeq(program, 2 * n + 1, Len(program))
      pops == rest # <<>> /\ rest[1] = Num(instructionSet.POP)
      done == instructionAddress.n \div 2
  IN (/\ n >= 1
      /\ rest \in {<<Num(instructionSet.HALT)>>,
                   <<Num(instructionSet.POP), Num(instructionSet.HALT)>>})
       => /\ fault = NoFault
          /\ stack = IF pops /\ instructionAddress.n > 2 * n
                     THEN Tail(Pushed(program, n))
                     ELSE Pushed(program, Min(done, n))

\* PUSH filler, PUSH 1, PUSH 2, POP, HALT has run: the 2 pushed last is gone
C14_Witness ==
  /\ program = PushLines(<<Filler, Num(1), Num(2)>>)
                 \o <<Num(instructionSet.POP), Num(instructionSet.HALT)>>
  /\ isHalted
  /\ stack = <<Num(1), Filler>>

(***************************************************************************)
(* C15, as it is written: the program assembled from "PUSH 42", "PUSH 68", *)
(* "HALT", run to completion, ends with the stack <<68, 42>> (top first),  *)
(* the instruction pointer 3, halted and without fault.                    *)
(***************************************************************************)
C15_EndsAtAddressThree ==
  (program = PushPushHalt /\ isHalted) =>
    /\ stack = <<Num(68), Num(42)>>
    /\ instructionAddress = Num(3)
    /\ fault = NoFault

(***************************************************************************)
(* C15, amended: the assembled program has the five words 1, 42, 1, 68, 0, *)
(* and its run ends with the stack <<68, 42>> (top first), the instruction *)
(* pointer 5 (the length of the program, one past the HALT word), halted   *)
(* and without fault.                                                      *)
(***************************************************************************)
C15_EndsAtProgramLength ==
  /\ PushPushHalt = <<Num(1), Num(42), Num(1), Num(68), Num(0)>>
  /\ (program = PushPushHalt /\ isHalted) =>
       /\ stack = <<Num(68), Num(42)>>
       /\ instructionAddress = Num(Len(program))
       /\ instructionAddress = Num(5)
       /\ fault = NoFault

C15_Witness ==
  /\ program = assemble(PushPushHaltLines)
  /\ isHalted
  /\ Len(stack) = 2
  /\ pc = "idle" /\ hostErrors = 0

(***************************************************************************)
(* C16: an engine constructed from an empty program is permanently halted  *)
(* and inert: from construction on and after any calls, halted reads true, *)
(* the instruction pointer reads 0, the stack reads empty, the fault tag   *)
(* reads absent, and no operation of the public surface fails.             *)
(***************************************************************************)
C16_EmptyProgramIsInert ==
  program = EmptyProgram =>
    /\ isHalted
    /\ instructionAddress = Num(0)
    /\ stack = <<>>
    /\ fault = NoFault
    /\ hostErrors = 0

(***************************************************************************)
(* C17: run() on a non-empty program ends if and only if the execution     *)
(* reaches HALT or a fault after finitely many steps, and the engine is    *)
(* halted when it ends; otherwise run() steps forever.  So a run() that is *)
(* in progress on a non-empty program ends only with the engine halted.    *)
(***************************************************************************)
C17_RunEndsOnlyHalted ==
  [][(validateProgram(program) /\ pc = "running" /\ pc' = "idle")
       => isHalted']_vars

(***************************************************************************)
(* run() keeps calling step() while the engine is not halted, and returns  *)
(* when it is: the steps of a run() in progress are taken, not postponed   *)
(* for ever.                                                               *)
(***************************************************************************)
RunStep == pc = "running" /\ Next

FairSpec == Init /\ [][Next]_vars /\ WF_vars(RunStep)

(***************************************************************************)
(* C18: for the while-accumulate program of testWhileAccumulate with the   *)
(* initial values a (slot 0) and b (slot 1, a non-negative integer), a     *)
(* run() eventually halts, on the HALT at word 2: no fault, instruction    *)
(* pointer 3, empty stack, frame slot 0 = a, slot 1 = 0, slot 2 = a * b.   *)
(***************************************************************************)
WhilePrograms == {WhileAccumulate(q[1], q[2]) : q \in WhilePairs}

WhileRuns == program \in WhilePrograms /\ pc = "running"

WhileDone ==
  LET a == program[5].n
      b == program[9].n
  IN /\ program \in WhilePrograms
     /\ isHalted
     /\ fault = NoFault
     /\ hostErrors = 0
     /\ program[instructionAddress.n] = Num(instructionSet.HALT)
     /\ instructionAddress = Num(3)
     /\ stack = <<>>
     /\ frame = [k \in {Num(0), Num(1), Num(2)} |->
                   IF k = Num(0) THEN Num(a)
                   ELSE IF k = Num(1) THEN Num(0) ELSE Num(a * b)]

C18_WhileAccumulateHalts == WhileRuns ~> WhileDone

\* the run of the test: 6 added up 4 times
C18_Witness ==
  /\ program = WhileAccumulate(6, 4)
  /\ pc = "running"
  /\ isHalted /\ fault = NoFault /\ instructionAddress = Num(3)
  /\ stack = <<>>
  /\ frame[Num(2)] = Num(24) /\ frame[Num(1)] = Num(0)

(***************************************************************************)
(* C19: for the if/else program of testIfElseStatement with the values a   *)
(* (slot 0) and b (slot 1), the execution halts without fault with the     *)
(* instruction pointer at the length of the program, 26 words, an empty    *)
(* stack, and the frame slot 0 = a, slot 1 = b, slot 2 = a if a > b and b  *)
(* otherwise.  Every step of it moves the instruction pointer forward      *)
(* within the 26 words and none fails, so HALT is reached; once halted,    *)
(* the state is the one stated.                                            *)
(***************************************************************************)
IfElsePrograms == {IfElse(q[1], q[2]) : q \in IfElsePairs}

IfElseDone ==
  LET a == program[2].n
      b == program[6].n
  IN /\ fault = NoFault
     /\ Len(program) = 26
     /\ instructionAddress = Num(Len(program))
     /\ stack = <<>>
     /\ frame = [k \in {Num(0), Num(1), Num(2)} |->
                   IF k = Num(0) THEN Num(a)
                   ELSE IF k = Num(1) THEN Num(b)
                   ELSE IF a > b THEN Num(a) ELSE Num(b)]

Forward(target) ==
  target.n > instructionAddress.n /\ target.n <= Len(program)

C19_IfElseResult ==
  [][(program \in IfElsePrograms) =>
       /\ hostErrors' = 0
       /\ ~isHalted =>
            (pc = "idle" /\ pc' = "running") \/ Forward(instructionAddress')
       /\ isHalted' => IfElseDone']_vars

\* the run of the test: 6 and 4 give slot 2 = 6
C19_Witness ==
  /\ program = IfElse(6, 4)
  /\ pc = "running"
  /\ isHalted /\ fault = NoFault
  /\ instructionAddress = Num(26)
  /\ stack = <<>>
  /\ frame[Num(2)] = Num(6)

(***************************************************************************)
(* C20, as it is written: in the run of the program assembled from         *)
(* "JMP 3", "HALT", "JMP 2" the machine ends with the instruction pointer  *)
(* 3, halted and without fault, and the JMP of the third line is never     *)
(* executed at any step.  The third line is the words 3 and 4.             *)
(***************************************************************************)
C20_ThirdLineNeverExecuted ==
  [][(program = UnconditionalJump) =>
       /\ ~(Executing(instructionSet.JMP) /\ instructionAddress = Num(3))
       /\ isHalted' =>
            instructionAddress' = Num(3) /\ fault' = NoFault]_vars

(***************************************************************************)
(* C20, amended: the assembled program is the five words 14, 3, 0, 14, 2.  *)
(* JMP 3 at word 0 lands on word 3, the JMP of the third line; that JMP    *)
(* is executed and sets the instruction pointer to 2; the HALT at word 2   *)
(* then ends the run with the instruction pointer 3, halted, without       *)
(* fault and with an empty stack.  No step fails.                          *)
(***************************************************************************)
Stepping == ~isHalted /\ ~(pc = "idle" /\ pc' = "running")

C20_ThirdLineExecutedOnce ==
  [][(program = UnconditionalJump) =>
       /\ program = <<Num(14), Num(3), Num(0), Num(14), Num(2)>>
       /\ hostErrors' = 0
       /\ ~isHalted => instructionAddress \in {Num(0), Num(3), Num(2)}
       /\ (Stepping /\ instructionAddress = Num(0)) =>
            instructionAddress' = Num(3) /\ ~isHalted'
       /\ (Stepping /\ instructionAddress = Num(3)) =>
            /\ Executing(instructionSet.JMP)
            /\ instructionAddress' = Num(2) /\ ~isHalted'
       /\ (Stepping /\ instructionAddress = Num(2)) =>
            /\ Executing(instructionSet.HALT)
            /\ instructionAddress' = Num(3) /\ isHalted'
       /\ isHalted' =>
            /\ instructionAddress' = Num(3)
            /\ fault' = NoFault
            /\ stack' = <<>>]_vars

\* the JMP of the third line has just been executed: only it leads to word 2
C20_Witness ==
  /\ program = UnconditionalJump
  /\ pc = "running"
  /\ ~isHalted
  /\ instructionAddress = Num(2)

(***************************************************************************)
(* C21: in every reachable state of an engine built from a non-empty       *)
(* program a fault tag is present only if the engine is halted; over any   *)
(* calls of step() and run() halted never goes back from true to false,    *)
(* and a fault tag, once set, is never cleared nor replaced.               *)
(***************************************************************************)
C21_FaultAndHaltedAreMonotone ==
  /\ [](validateProgram(program) => (fault # NoFault => isHalted))
  /\ [][validateProgram(program) =>
          /\ isHalted => isHalted'
          /\ fault # NoFault => fault' = fault]_vars

\* a faulted engine on which step() or run() was called twice more
C21_Witness ==
  /\ validateProgram(program)
  /\ fault = "BIN_OP"
  /\ isHalted
  /\ noops = MaxNoops
  /\ pc = "running"

(***************************************************************************)
(* assemble() on its own: asm.reduce() hands the lines to mnemonic() one   *)
(* by one, in order, and builds a new array from the words so far and the  *)
(* words of the line; the array of lines is only read.  The lines are the  *)
(* argument-less mnemonics, and PUSH, JMP, JIF, LOAD and STORE followed by *)
(* one or two blanks and a signed decimal number.                          *)
(***************************************************************************)
WithoutArgument == (DOMAIN instructionSet) \ WithArgument
AsmArguments == {0 - 12, 0, 7, 42}
Blanks == {<<" ">>, <<" ", " ">>}

\* the lines of the grammar, each with the words the instruction set gives it
LineTable ==
  {[text |-> Line(name), words |-> <<Num(instructionSet[name])>>] :
     name \in WithoutArgument}
    \cup
  {[text |-> Mnemonics[c[1]] \o c[3] \o Decimal(c[2]),
    words |-> <<Num(instructionSet[c[1]]), Num(c[2])>>] :
     c \in WithArgument \X AsmArguments \X Blanks}

AsmInputs == SeqsUpTo({r.text : r \in LineTable}, MaxLines)

AsmInit ==
  /\ asmLines \in AsmInputs
  /\ asmDone = 0
  /\ program = <<>>
  /\ pc = "assemble"
  /\ isHalted = FALSE
  /\ instructionAddress = Num(0)
  /\ fault = NoFault
  /\ stack = <<>>
  /\ frame = <<>>
  /\ hostErrors = 0
  /\ noops = 0

\* one call of reduce()'s callback: [...program, ...mnemonic(instruction)]
AssembleLine ==
  /\ pc = "assemble"
  /\ asmDone < Len(asmLines)
  /\ program' = program \o mnemonic(asmLines[asmDone + 1])
  /\ asmDone' = asmDone + 1
  /\ UNCHANGED <<asmLines, isHalted, instructionAddress, fault, stack, frame,
                 pc, hostErrors, noops>>

\* reduce() has consumed every line: assemble() returns the array
AssembleReturn ==
  /\ pc = "assemble"
  /\ asmDone = Len(asmLines)
  /\ pc' = "idle"
  /\ UNCHANGED <<asmLines, asmDone, program, isHalted, instructionAddress,
                 fault, stack, frame, hostErrors, noops>>

AsmNext == AssembleLine \/ AssembleReturn

AssemblerSpec == AsmInit /\ [][AsmNext]_vars

(***************************************************************************)
(* C22: assemble maps each line on its own and concatenates in the order   *)
(* of the lines: a line with an argument-less mnemonic yields one word,    *)
(* the code of the opcode; a line PUSH/JMP/JIF/LOAD/STORE n yields two,    *)
(* the code and then n.  So the length of the program is the number of     *)
(* lines plus the number of lines with an immediate, and the lines handed  *)
(* in are not modified.                                                    *)
(***************************************************************************)
WordsOf(text) == (CHOOSE r \in LineTable : r.text = text).words

RECURSIVE WordsOfLines(_)
WordsOfLines(ls) ==
  IF ls = <<>> THEN <<>> ELSE WordsOf(Head(ls)) \o WordsOfLines(Tail(ls))

CarriesImmediate(text) ==
  \E k \in WithArgument :
    Len(text) > Len(Mnemonics[k])
      /\ SubSeq(text, 1, Len(Mnemonics[k])) = Mnemonics[k]

C22_AssembleConcatenatesLineWords ==
  /\ [](LET done == SubSeq(asmLines, 1, asmDone)
        IN /\ program = WordsOfLines(done)
           /\ Len(program) =
                asmDone
                  + Cardinality({i \in 1 .. asmDone : CarriesImmediate(done[i])})
           /\ pc = "idle" => asmDone = Len(asmLines))
  /\ [][asmLines' = asmLines]_vars

\* "PUSH -12" (two blanks) and "GTE" were assembled to 1, -12, 13
C22_Witness ==
  /\ asmLines = <<Mnemonics.PUSH \o <<" ", " ", "-", "1", "2">>, Mnemonics.GTE>>
  /\ pc = "idle"
  /\ program = <<Num(1), Num(0 - 12), Num(13)>>

(***************************************************************************)
(* C23: an instruction that executes without faulting and without taking   *)
(* a jump advances the instruction pointer by the number of words it       *)
(* fetched: by 1 for HALT, POP, DUP and the ALU instructions, by 2 for     *)
(* PUSH, LOAD, STORE and a JIF that does not jump.  The instruction        *)
(* pointer never decreases except through JMP or a JIF that jumps.         *)
(***************************************************************************)
OneWord ==
  {instructionSet.HALT, instructionSet.POP, instructionSet.DUP}
    \cup UnaryOps \cup BinaryOps
TwoWords == {instructionSet.PUSH, instructionSet.LOAD, instructionSet.STORE}

Advanced(k) == instructionAddress' = Num(instructionAddress.n + k)

JifJumps ==
  Executing(instructionSet.JIF) /\ Len(stack) >= 1 /\ stack[1] # Num(0)

C23_IpAdvancesByWordsFetched ==
  [][/\ \A code \in OneWord :
          (Executing(code) /\ fault' = NoFault) => Advanced(1)
     /\ \A code \in TwoWords :
          (Executing(code) /\ fault' = NoFault) => Advanced(2)
     /\ (Executing(instructionSet.JIF) /\ fault' = NoFault /\ ~JifJumps)
          => Advanced(2)
     /\ (/\ ~Executing(instructionSet.JMP) /\ ~JifJumps
         /\ instructionAddress.t = "num" /\ instructionAddress'.t = "num")
          => instructionAddress'.n >= instructionAddress.n]_vars

\* PUSH 1, PUSH 2, ADD, HALT has run: 2 + 2 + 1 + 1 words were fetched
C23_Witness ==
  /\ program = PushLines(<<Num(1), Num(2)>>)
                 \o <<Num(instructionSet.ADD), Num(instructionSet.HALT)>>
  /\ isHalted /\ fault = NoFault
  /\ stack = <<Num(3)>>
  /\ instructionAddress = Num(6)

(***************************************************************************)
(* C24: on success every instruction changes the stack only at its top.    *)
(* A binary instruction consumes two cells and pushes one (depth - 1),     *)
(* NOT consumes one and pushes one (depth unchanged), PUSH, DUP and LOAD   *)
(* add one cell (depth + 1), POP, JIF and STORE remove one (depth - 1),    *)
(* HALT and JMP leave the stack as it is; the cells below the consumed     *)
(* operands keep their values and their order.                             *)
(***************************************************************************)
Succeeds(code) == Executing(code) /\ fault' = NoFault

C24_StackChangesOnlyAtTop ==
  [][/\ \A code \in BinaryOps :
          Succeeds(code) =>
            /\ Len(stack) >= 2
            /\ Len(stack') = Len(stack) - 1
            /\ Tail(stack') = Drop(stack, 2)
     /\ \A code \in UnaryOps :
          Succeeds(code) =>
            /\ Len(stack) >= 1
            /\ Len(stack') = Len(stack)
            /\ Tail(stack') = Tail(stack)
     /\ \A code \in {instructionSet.PUSH, instructionSet.DUP,
                     instructionSet.LOAD} :
          Succeeds(code) =>
            Len(stack') = Len(stack) + 1 /\ Tail(stack') = stack
     /\ \A code \in {instructionSet.POP, instructionSet.JIF,
                     instructionSet.STORE} :
          Succeeds(code) =>
            /\ Len(stack) >= 1
            /\ Len(stack') = Len(stack) - 1
            /\ stack' = Tail(stack)
     /\ \A code \in {instructionSet.HALT, instructionSet.JMP} :
          Succeeds(code) => stack' = stack]_vars

\* testReduceAdd in the small: PUSH filler, PUSH 1, PUSH 2, ADD has run and
\* the filler below the operands is still there
C24_Witness ==
  /\ program = PushLines(<<Filler, Num(1), Num(2)>>)
                 \o <<Num(instructionSet.ADD)>>
  /\ ~isHalted
  /\ instructionAddress = Num(7)
  /\ stack = <<Num(3), Filler>>

(***************************************************************************)
(* C25: executing HALT on an engine that is not halted sets halted, sets   *)
(* no fault, leaves the stack and the frame as they are and leaves the     *)
(* instruction pointer one past the HALT word: at the length of the        *)
(* program when the HALT is its last word.                                 *)
(***************************************************************************)
C25_HaltEffect ==
  [][Executing(instructionSet.HALT) =>
       /\ isHalted'
       /\ fault' = NoFault
       /\ stack' = stack
       /\ frame' = frame
       /\ Advanced(1)
       /\ instructionAddress.n + 1 = Len(program) =>
            instructionAddress' = Num(Len(program))]_vars

\* PUSH filler, STORE 0, PUSH 2, HALT has run: HALT was the last word, the
\* cell and the slot are still there
C25_Witness ==
  /\ program = <<Num(instructionSet.PUSH), Filler, Num(instructionSet.STORE),
                 Num(0), Num(instructionSet.PUSH), Num(2),
                 Num(instructionSet.HALT)>>
  /\ isHalted /\ fault = NoFault
  /\ instructionAddress = Num(Len(program))
  /\ stack = <<Num(2)>>
  /\ frame = [k \in {Num(0)} |-> Filler]

(***************************************************************************)
(* C26: DUP on a stack of depth >= 1 pushes a cell equal to the top, so    *)
(* that the two top cells are equal and the rest of the stack is as        *)
(* before; POP on a stack of depth >= 1 removes exactly the top cell.      *)
(* Neither touches the frame, neither raises a fault.                      *)
(***************************************************************************)
C26_DupAndPop ==
  [][/\ (Executing(instructionSet.DUP) /\ Len(stack) >= 1) =>
          /\ stack' = <<stack[1]>> \o stack
          /\ stack'[1] = stack'[2]
          /\ frame' = frame
          /\ fault' = NoFault /\ ~isHalted'
     /\ (Executing(instructionSet.POP) /\ Len(stack) >= 1) =>
          /\ stack' = Tail(stack)
          /\ frame' = frame
          /\ fault' = NoFault /\ ~isHalted']_vars

\* testDup with a cell below: PUSH filler, PUSH 1, DUP has run
C26_Witness ==
  /\ program = PushLines(<<Filler, Num(1)>>) \o <<Num(instructionSet.DUP)>>
  /\ ~isHalted
  /\ instructionAddress = Num(5)
  /\ stack = <<Num(1), Num(1), Filler>>

(***************************************************************************)
(* C27: the frame is changed only by a successful STORE.  Every other      *)
(* step (a LOAD of an unset slot and every faulting instruction included)  *)
(* leaves the frame as it is, and a successful STORE k changes slot k      *)
(* only: every other slot keeps its value, or stays absent.                *)
(***************************************************************************)
C27_FrameChangedOnlyByStore ==
  [][/\ ~Storing(Immediate) => frame' = frame
     /\ Storing(Immediate) =>
          /\ DOMAIN frame' = (DOMAIN frame) \cup {Immediate}
          /\ \A k \in (DOMAIN frame) \ {Immediate} : frame'[k] = frame[k]]_vars

\* PUSH filler, STORE 0, PUSH 2, STORE 1 has run: slot 0 kept the filler
C27_Witness ==
  /\ program = <<Num(instructionSet.PUSH), Filler, Num(instructionSet.STORE),
                 Num(0), Num(instructionSet.PUSH), Num(2),
                 Num(instructionSet.STORE), Num(1)>>
  /\ ~isHalted
  /\ stack = <<>>
  /\ frame = [k \in {Num(0), Num(1)} |-> IF k = Num(0) THEN Filler ELSE Num(2)]

(***************************************************************************)
(* C28: in every reachable state of an engine built from a non-empty       *)
(* program, if the engine is halted and no fault is set, it was stopped    *)
(* by a HALT instruction: the instruction pointer is at least 1 and the    *)
(* word of the program at the address before it is the HALT opcode, 0.     *)
(***************************************************************************)
C28_HaltedWithoutFaultIsAfterHalt ==
  (validateProgram(program) /\ isHalted /\ fault = NoFault) =>
    /\ IsInteger(instructionAddress)
    /\ instructionAddress.n >= 1
    /\ instructionAddress.n <= Len(program)
    /\ ProgramWord(Num(instructionAddress.n - 1)) = Num(instructionSet.HALT)
    /\ instructionSet.HALT = 0

\* testUnconditionalJump has ended: the HALT at word 2 was reached by a jump
C28_Witness ==
  /\ program = UnconditionalJump
  /\ isHalted /\ fault = NoFault
  /\ instructionAddress = Num(3)
  /\ pc = "idle" /\ noops = 0

====
